---- MODULE Spec2Model ----
(***************************************************************************)
(* GPMF (GoPro metadata) KLV reader and GPS track reconstruction.          *)
(*                                                                         *)
(* Bytes are the integers 0..255.  A Python str or bytes value is the      *)
(* sequence of its character codes, so that slicing, concatenation and     *)
(* comparison are those of the code.                                       *)
(***************************************************************************)
EXTENDS Integers, Sequences, FiniteSets, TLC

VARIABLES
  tuples,       \* the (key, type, size, repeat, payload) tuples the buffer encodes
  gpmf,         \* gpmf2gpx: the input buffer gpmf_blob
  unfold_keys,  \* read_all: the keys whose payload is tokenized recursively
  stack,        \* read_all: the generator frames, innermost last: data, i, path_id
  yielded,      \* read_all: the (path_id, klm) pairs yielded so far
  strm_klvs,    \* gpmf2gpx: path_id -> (key -> klm), in insertion order
  pc,           \* where the running call stands
  result,       \* gpmf2gpx: its outcome once it ended
  written,      \* extract_all: the number of GPX files written
  vid,          \* extract_all: the number of videos taken from mp4_files
  status,       \* main: the exit status of the process, -1 while it runs
  klv_item,     \* decode_from_type: its argument
  decoded       \* decode_from_type: its outcome

readerVars == <<tuples, gpmf, unfold_keys, stack, yielded>>
driverVars == <<written, vid, status>>
valueVars == <<klv_item, decoded>>
vars == <<readerVars, strm_klvs, pc, result, driverVars, valueVars>>

Min(a, b) == IF a < b THEN a ELSE b

(* ----------------------------- fourcc keys ----------------------------- *)
DEVC == <<68, 69, 86, 67>>
STRM == <<83, 84, 82, 77>>
GPS5 == <<71, 80, 83, 53>>
GPS9 == <<71, 80, 83, 57>>
EMPT == <<69, 77, 80, 84>>
STMP == <<83, 84, 77, 80>>
TSMP == <<84, 83, 77, 80>>
STNM == <<83, 84, 78, 77>>
UNIT == <<85, 78, 73, 84>>
TYPE == <<84, 89, 80, 69>>
SCAL == <<83, 67, 65, 76>>
GPSA == <<71, 80, 83, 65>>
GPSU == <<71, 80, 83, 85>>
GPSP == <<71, 80, 83, 80>>
GPSF == <<71, 80, 83, 70>>
ACCL == <<65, 67, 67, 76>>

\* "NST", the type string of a header whose type byte is zero
NST == <<78, 83, 84>>
\* "gpmf", the path id of the top level
GPMF_PATH == <<103, 112, 109, 102>>

(* ------------------------------ helpers.py ----------------------------- *)
\* x >> 2 is the floor of x / 4, also for x = -1
ceil4(x) == (((x - 1) \div 4) + 1) * 4

has_next(bin) == Len(bin) > 8

\* bin[a:b] for 0 <= a, b (Python clamps both ends to the length)
Slice(s, a, b) == SubSeq(s, Min(a, Len(s)) + 1, Min(b, Len(s)))

\* pop_klm: the item, the rest of the buffer, and the exception raised ("" = none)
pop_klm(bin) ==
  LET head == Slice(bin, 0, 8)
      bin1 == Slice(bin, 8, Len(bin))
      fourcc == SubSeq(head, 1, 4)
      type_b == head[5]
      size == head[6]
      repeat == head[7] * 256 + head[8]
      type_str == IF type_b # 0 THEN <<type_b>> ELSE NST
      payload_size == ceil4(size * repeat)
      payload == Slice(bin1, 0, payload_size)
      bin2 == Slice(bin1, payload_size, Len(bin1))
  IN  [exc |-> IF \E k \in 1..5 : head[k] >= 128 THEN "UnicodeDecodeError"
               ELSE IF Len(payload) # payload_size THEN "AssertionError"
               ELSE "",
       klm |-> [key |-> fourcc,
                length |-> [type |-> type_str, size |-> size, repeat |-> repeat],
                value |-> payload],
       bin |-> bin2]

\* str(i) for i >= 0
RECURSIVE Digits(_)
Digits(i) == IF i < 10 THEN <<48 + i>> ELSE Digits(i \div 10) \o <<48 + (i % 10)>>

\* a nest id that leaves the index out
NestIdNoIndex(path_id, i) == path_id \o <<45>>

\* f"{path_id}-{i}"
NestId(path_id, i) == path_id \o <<45>> \o Digits(i)

(* ------------------------ parse.py: the grouping ----------------------- *)
\* DictSet with the first item of a key kept
DictSetFirstWins(d, klm) ==
  IF \E j \in 1..Len(d) : d[j].key = klm.key THEN d ELSE Append(d, klm)

\* d[klm.key] = klm on a dict kept as the sequence of its values in insertion order
DictSet(d, klm) ==
  IF \E j \in 1..Len(d) : d[j].key = klm.key
  THEN [j \in 1..Len(d) |-> IF d[j].key = klm.key THEN klm ELSE d[j]]
  ELSE Append(d, klm)

\* if path_id not in strm_klvs: strm_klvs[path_id] = {}; strm_klvs[path_id][klm.key] = klm
Group(klvs, path_id, klm) ==
  IF \E j \in 1..Len(klvs) : klvs[j].path_id = path_id
  THEN [j \in 1..Len(klvs) |->
          IF klvs[j].path_id = path_id
          THEN [path_id |-> path_id, strm |-> DictSet(klvs[j].strm, klm)]
          ELSE klvs[j]]
  ELSE Append(klvs, [path_id |-> path_id, strm |-> <<klm>>])

(* ------------------------------- endec.py ------------------------------ *)
Has(strm, k) == \E j \in 1..Len(strm) : strm[j].key = k
\* strm.get(k), for a key that is present
Get(strm, k) == strm[CHOOSE j \in 1..Len(strm) : strm[j].key = k]

strm_type(strm) ==
  IF Has(strm, GPS9) THEN "GPS9"
  ELSE IF Has(strm, GPS5) THEN "GPS5"
  ELSE "UNKNOWN"

\* t.py TYPE_CONV: type code -> element width in bytes and kind of the numpy dtype
TYPE_CONV ==
  (<<100>> :> [w |-> 8, k |-> "float"]) @@ (<<102>> :> [w |-> 4, k |-> "float"]) @@
  (<<98>>  :> [w |-> 1, k |-> "int"])   @@ (<<66>>  :> [w |-> 1, k |-> "uint"]) @@
  (<<115>> :> [w |-> 2, k |-> "int"])   @@ (<<83>>  :> [w |-> 2, k |-> "uint"]) @@
  (<<108>> :> [w |-> 4, k |-> "int"])   @@ (<<76>>  :> [w |-> 4, k |-> "uint"]) @@
  (<<106>> :> [w |-> 8, k |-> "int"])   @@ (<<74>>  :> [w |-> 8, k |-> "uint"])

\* big-endian unsigned value of a byte string
RECURSIVE BEUnsigned(_)
BEUnsigned(b) ==
  IF b = <<>> THEN 0 ELSE BEUnsigned(SubSeq(b, 1, Len(b) - 1)) * 256 + b[Len(b)]

\* big-endian two's complement value of a byte string
BESigned(b) ==
  IF b[1] < 128 THEN BEUnsigned(b)
  ELSE -BEUnsigned([j \in 1..Len(b) |-> 255 - b[j]]) - 1

\* one element of dtype kind k; a float element is kept as its bit pattern
Element(k, b) ==
  IF k = "uint" THEN BEUnsigned(b)
  ELSE IF k = "int" THEN BESigned(b)
  ELSE [bits |-> b]

\* numpy.frombuffer(value, dtype) for a dtype of width w and kind k
FromBuffer(value, w, k) ==
  [j \in 1..(Len(value) \div w) |-> Element(k, SubSeq(value, (j - 1) * w + 1, j * w))]

\* decode_from_type: exc is the exception raised ("" = none), kind is str, scalar or
\* array, a holds the characters or the elements
decode_from_type(item) ==
  IF item.length.type = <<85>>
  THEN [exc |-> "", kind |-> "str", a |-> item.value]
  ELSE IF item.length.type \notin DOMAIN TYPE_CONV
  THEN [exc |-> "KeyError", kind |-> "", a |-> <<>>]
  ELSE LET tc == TYPE_CONV[item.length.type]
       IN  IF Len(item.value) % tc.w # 0
           THEN [exc |-> "ValueError", kind |-> "", a |-> <<>>]
           ELSE LET a == FromBuffer(item.value, tc.w, tc.k)
                IN  [exc |-> "", kind |-> IF Len(a) = 1 THEN "scalar" ELSE "array",
                     a |-> a]

RECURSIVE DecimalValue(_)
DecimalValue(s) ==
  IF s = <<>> THEN 0 ELSE DecimalValue(SubSeq(s, 1, Len(s) - 1)) * 10 + (s[Len(s)] - 48)

IsDigits(s) == \A j \in 1..Len(s) : s[j] \in 48..57

\* int(self.decode_from_type(item))
IntOf(item) ==
  LET r == decode_from_type(item)
  IN  IF r.exc # "" THEN [exc |-> r.exc, v |-> 0]
      ELSE IF r.kind = "str"
      THEN IF r.a # <<>> /\ IsDigits(r.a) THEN [exc |-> "", v |-> DecimalValue(r.a)]
           ELSE [exc |-> "ValueError", v |-> 0]
      ELSE IF r.kind = "array" THEN [exc |-> "TypeError", v |-> 0]
      ELSE [exc |-> "", v |-> r.a[1]]

(* --- numbers: a float is the exact quotient n / d of two integers, d > 0 --- *)
Q(n, d) == [n |-> n, d |-> d]
QGt(x, k) == x.n > k * x.d
QLt(x, k) == x.n < k * x.d
\* int(x): truncation towards zero
QInt(x) == IF x.n >= 0 THEN x.n \div x.d ELSE -((-x.n) \div x.d)

\* round(a / b) to the nearest integer, ties to even, for b > 0
RoundHalfEven(a, b) ==
  LET q == a \div b
      r == a % b
  IN  IF 2 * r < b THEN q
      ELSE IF 2 * r > b THEN q + 1
      ELSE IF q % 2 = 0 THEN q ELSE q + 1

(* --- datetime and timedelta: days, seconds, microseconds, normalised --- *)
USEC == 1000 * 1000
DAYSEC == 24 * 3600

Normalise(d, s, us) ==
  LET s1 == s + (us \div USEC)
  IN  [d |-> d + (s1 \div DAYSEC), s |-> s1 % DAYSEC, us |-> us % USEC]

\* timedelta(seconds=n/d)
TimedeltaSeconds(n, d) ==
  Normalise(0, n \div d, RoundHalfEven((n % d) * USEC, d))

\* timedelta(days=n/d)
TimedeltaDays(n, d) ==
  LET secs == (n % d) * DAYSEC
  IN  Normalise(n \div d, secs \div d, RoundHalfEven((secs % d) * USEC, d))

\* datetime + timedelta, timedelta + timedelta
TimeAdd(t, td) == Normalise(t.d + td.d, t.s + td.s, t.us + td.us)

\* timedelta * i
TimeMul(td, i) == Normalise(td.d * i, td.s * i, td.us * i)

\* days from 2000-01-01 to the civil date y-m-d
DaysFromCivil(y, m, d) ==
  LET y1 == IF m <= 2 THEN y - 1 ELSE y
      era == y1 \div 400
      yoe == y1 - era * 400
      mp == IF m > 2 THEN m - 3 ELSE m + 9
      doy == ((153 * mp + 2) \div 5) + d - 1
      doe == yoe * 365 + (yoe \div 4) - (yoe \div 100) + doy
  IN  era * 146097 + doe - 730425

IsLeap(y) == (y % 4 = 0 /\ y % 100 # 0) \/ y % 400 = 0
DaysInMonth(y, m) ==
  IF m = 2 THEN (IF IsLeap(y) THEN 29 ELSE 28)
  ELSE IF m \in {4, 6, 9, 11} THEN 30 ELSE 31

\* datetime.strptime(s, "%Y%m%d%H%M%S.%f") for a string of fixed-width fields
Strptime(s) ==
  IF ~(Len(s) \in 16..21 /\ IsDigits(SubSeq(s, 1, 14)) /\ s[15] = 46
       /\ IsDigits(SubSeq(s, 16, Len(s))))
  THEN [exc |-> "ValueError", t |-> Normalise(0, 0, 0)]
  ELSE LET y == DecimalValue(SubSeq(s, 1, 4))
           mo == DecimalValue(SubSeq(s, 5, 6))
           dd == DecimalValue(SubSeq(s, 7, 8))
           hh == DecimalValue(SubSeq(s, 9, 10))
           mi == DecimalValue(SubSeq(s, 11, 12))
           ss == DecimalValue(SubSeq(s, 13, 14))
           frac == SubSeq(s, 16, Len(s)) \o [j \in 1..(21 - Len(s)) |-> 48]
       IN  IF mo \in 1..12 /\ y >= 1 /\ dd \in 1..DaysInMonth(y, mo) /\ hh < 24
              /\ mi < 60 /\ ss < 62
           THEN [exc |-> "",
                 t |-> Normalise(DaysFromCivil(y, mo, dd),
                                 hh * 3600 + mi * 60 + Min(ss, 59), DecimalValue(frac))]
           ELSE [exc |-> "ValueError", t |-> Normalise(0, 0, 0)]

\* FIX_TYPE
\* a table that gives the codes 1 and 4 a default instead of failing
FIX_TYPEDefaulted ==
  (0 :> "none") @@ (1 :> "none") @@ (2 :> "2d") @@ (3 :> "3d") @@ (4 :> "none")

FIX_TYPE == (0 :> "none") @@ (2 :> "2d") @@ (3 :> "3d")

\* f"{v:.3f}": the value in thousandths, rounded to the nearest
Fmt3(x) ==
  IF x.n >= 0 THEN RoundHalfEven(x.n * 1000, x.d) ELSE -RoundHalfEven((-x.n) * 1000, x.d)

\* f"unit<{unit}> gpsa<{gps_a}>"
Comment(unit, gps_a) ==
  <<117, 110, 105, 116, 60>> \o unit \o <<62, 32, 103, 112, 115, 97, 60>> \o gps_a \o <<62>>

\* a latitude check that also rejects the bounds themselves
SaneLatOpen(lat) == IF ~QLt(lat, 90) \/ ~QGt(lat, -90) THEN Q(0, 1) ELSE lat

\* the latitude _build_gpx_point keeps
SaneLat(lat) == IF QGt(lat, 90) \/ QLt(lat, -90) THEN Q(0, 1) ELSE lat
\* the longitude _build_gpx_point keeps
SaneLng(lng) == IF QGt(lng, 180) \/ QLt(lng, -180) THEN Q(0, 1) ELSE lng

\* _build_gpx_point: the point, or the KeyError of FIX_TYPE[int(fix)]
build_gpx_point(name, unit, gps_a, block_sample_idx, lat, lng, elv, dop, vel2d, vel3d, fix, gps_time) ==
  IF QInt(fix) \notin DOMAIN FIX_TYPE
  THEN [exc |-> "KeyError", point |-> <<>>]
  ELSE [exc |-> "",
        point |-> [latitude |-> SaneLat(lat), longitude |-> SaneLng(lng),
                   elevation |-> elv, time |-> gps_time,
                   comment |-> Comment(unit, gps_a), position_dilution |-> dop,
                   name |-> name, type_of_gpx_fix |-> FIX_TYPE[QInt(fix)],
                   speed_2d |-> Fmt3(vel2d), speed_3d |-> Fmt3(vel3d)]]

\* a decoder's outcome: a GPXTrackSegment, or the exception it raised
Segment(points) == [exc |-> "", points |-> points]
Raise(exc) == [exc |-> exc, points |-> <<>>]

\* the first exception a sequence of outcomes holds, "" when none
FirstExc(rs) ==
  IF \E j \in 1..Len(rs) : rs[j].exc # ""
  THEN rs[CHOOSE j \in 1..Len(rs) :
            rs[j].exc # "" /\ \A k \in 1..(j - 1) : rs[k].exc = ""].exc
  ELSE ""

\* numpy broadcasting of rows of ncols columns (nrows of them) against nscal divisors:
\* the number of columns of the quotient, -1 when the shapes do not broadcast
BroadcastCols(nrows, ncols, nscal, flat) ==
  IF flat /\ nrows = 0
  THEN (IF nscal <= 1 THEN 0 ELSE -1)
  ELSE IF ncols = nscal \/ nscal = 1 THEN ncols
  ELSE IF ncols = 1 THEN nscal
  ELSE -1

\* one row of raw / SCAL
ScaledRow(raw, scal, ncols) ==
  [c \in 1..ncols |->
     Q(IF Len(raw) = 1 THEN raw[1] ELSE raw[c], IF Len(scal) = 1 THEN scal[1] ELSE scal[c])]

\* STNM.value.decode("latin-1")[:STNM.length.size]
StrOf(item) == Slice(item.value, 0, item.length.size)

\* struct.unpack(">cccc", GPSA.value[:4]) and the decode of its join
GPSAExc(item) ==
  IF Len(Slice(item.value, 0, 4)) # 4 THEN "struct.error"
  ELSE IF \E j \in 1..4 : item.value[j] >= 128 THEN "UnicodeDecodeError"
  ELSE ""

\* timedelta(seconds=1.0 / 18.)
SAMPLE_TIME == TimedeltaSeconds(1, 18)

\* self.decode_from_type(GPSP)[0] / 100.0
GPSPOf(item) ==
  LET r == decode_from_type(item)
  IN  IF r.exc # "" THEN [exc |-> r.exc, v |-> Q(0, 1)]
      ELSE IF r.kind = "scalar" \/ r.a = <<>> THEN [exc |-> "IndexError", v |-> Q(0, 1)]
      ELSE IF r.kind = "str" THEN [exc |-> "TypeError", v |-> Q(0, 1)]
      ELSE [exc |-> "", v |-> Q(r.a[1], 100)]

\* the GPSU start time: strptime of f"20{GPSU}"
GPSUOf(item) ==
  LET r == decode_from_type(item)
  IN  IF r.exc # "" THEN [exc |-> r.exc, t |-> Normalise(0, 0, 0)]
      ELSE IF r.kind # "str" THEN [exc |-> "ValueError", t |-> Normalise(0, 0, 0)]
      ELSE Strptime(<<50, 48>> \o r.a)

\* struct format characters of integer fields: width and signedness
StructFmt ==
  (73 :> [w |-> 4, k |-> "uint"]) @@ (76 :> [w |-> 4, k |-> "uint"]) @@
  (105 :> [w |-> 4, k |-> "int"]) @@ (72 :> [w |-> 2, k |-> "uint"]) @@
  (104 :> [w |-> 2, k |-> "int"]) @@ (66 :> [w |-> 1, k |-> "uint"]) @@
  (98 :> [w |-> 1, k |-> "int"])  @@ (81 :> [w |-> 8, k |-> "uint"]) @@
  (113 :> [w |-> 8, k |-> "int"])

\* TYPE.replace("l", "I").replace("S", "H")
Typing(type_s) ==
  [j \in 1..Len(type_s) |->
     IF type_s[j] = 108 THEN 73 ELSE IF type_s[j] = 83 THEN 72 ELSE type_s[j]]

RECURSIVE CalcSize(_)
CalcSize(typing) ==
  IF typing = <<>> THEN 0 ELSE StructFmt[Head(typing)].w + CalcSize(Tail(typing))

RECURSIVE UnpackFields(_, _)
UnpackFields(typing, b) ==
  IF typing = <<>> THEN <<>>
  ELSE LET f == StructFmt[Head(typing)]
       IN  <<Element(f.k, SubSeq(b, 1, f.w))>>
             \o UnpackFields(Tail(typing), SubSeq(b, f.w + 1, Len(b)))

\* struct.unpack(f">{typing}", b); a TYPE string of other than integer codes is not drawn
Unpack(typing, b) ==
  IF (\E j \in 1..Len(typing) : typing[j] \notin DOMAIN StructFmt)
     \/ CalcSize(typing) # Len(b)
  THEN [exc |-> "struct.error", v |-> <<>>]
  ELSE [exc |-> "", v |-> UnpackFields(typing, b)]

\* the exception of the lookups that open both decoders: STMP, TSMP, STNM, UNIT
HeaderExc(strm) ==
  IF ~Has(strm, STMP) THEN "AttributeError"
  ELSE IF IntOf(Get(strm, STMP)).exc # "" THEN IntOf(Get(strm, STMP)).exc
  ELSE IF ~Has(strm, TSMP) THEN "AttributeError"
  ELSE IF IntOf(Get(strm, TSMP)).exc # "" THEN IntOf(Get(strm, TSMP)).exc
  ELSE IF ~Has(strm, STNM) THEN "AttributeError"
  ELSE IF ~Has(strm, UNIT) THEN "AttributeError"
  ELSE ""

\* the loop of decode_gps9 over the scaled rows
Gps9Points(strm, rows) ==
  LET STNMv == StrOf(Get(strm, STNM))
      UNITv == StrOf(Get(strm, UNIT))
      GPSAv == Slice(Get(strm, GPSA).value, 0, 4)
      pts == [i \in 1..Len(rows) |->
                LET gpsdp == rows[i]
                    gps_time == TimeAdd(TimeAdd(Normalise(0, 0, 0),
                                                TimedeltaDays(gpsdp[6].n, gpsdp[6].d)),
                                        TimedeltaSeconds(gpsdp[7].n, gpsdp[7].d))
                IN  build_gpx_point(STNMv, UNITv, GPSAv, i - 1, gpsdp[1], gpsdp[2],
                                    gpsdp[3], gpsdp[8], gpsdp[4], gpsdp[5], gpsdp[9],
                                    gps_time)]
  IN  IF FirstExc(pts) # "" THEN Raise(FirstExc(pts))
      ELSE Segment([i \in 1..Len(pts) |-> pts[i].point])

decode_gps9(strm) ==
  IF HeaderExc(strm) # "" THEN Raise(HeaderExc(strm))
  ELSE IF ~Has(strm, TYPE) THEN Raise("AttributeError")
  ELSE IF ~Has(strm, GPSA) THEN Raise("AttributeError")
  ELSE IF GPSAExc(Get(strm, GPSA)) # "" THEN Raise(GPSAExc(Get(strm, GPSA)))
  ELSE IF ~Has(strm, SCAL) THEN Raise("AttributeError")
  ELSE IF ~Has(strm, GPS9) THEN Raise("AttributeError")
  ELSE
    LET scal == FromBuffer(Get(strm, SCAL).value, 4, "int")
        item == Get(strm, GPS9)
        size == item.length.size
        typing == Typing(StrOf(Get(strm, TYPE)))
        samples == [r \in 1..item.length.repeat |->
                      Unpack(typing, Slice(item.value, (r - 1) * size, r * size))]
        ncols == BroadcastCols(Len(samples), Len(typing), Len(scal), TRUE)
    IN  IF FirstExc(samples) # "" THEN Raise(FirstExc(samples))
        ELSE IF ncols < 0 THEN Raise("ValueError")
        ELSE IF Len(samples) > 0 /\ ncols < 9 THEN Raise("IndexError")
        ELSE Gps9Points(strm, [r \in 1..Len(samples) |->
                                 ScaledRow(samples[r].v, scal, ncols)])

\* the loop of decode_gps5 over the scaled rows
Gps5Points(strm, rows, GPSUv, GPSPv, GPSFv) ==
  LET STNMv == StrOf(Get(strm, STNM))
      UNITv == StrOf(Get(strm, UNIT))
      GPSAv == Slice(Get(strm, GPSA).value, 0, 4)
      pts == [i \in 1..Len(rows) |->
                LET gpsdp == rows[i]
                    pos_time == TimeAdd(GPSUv, TimeMul(SAMPLE_TIME, i - 1))
                IN  build_gpx_point(STNMv, UNITv, GPSAv, i - 1, gpsdp[1], gpsdp[2],
                                    gpsdp[3], GPSPv, gpsdp[4], gpsdp[5], Q(GPSFv, 1),
                                    pos_time)]
  IN  IF FirstExc(pts) # "" THEN Raise(FirstExc(pts))
      ELSE Segment([i \in 1..Len(pts) |-> pts[i].point])

\* decode_gps5 after its EMPT check: the keys it reads, then the loop over the rows
Gps5Decode(strm) ==
  IF HeaderExc(strm) # "" THEN Raise(HeaderExc(strm))
  ELSE IF ~Has(strm, GPSU) THEN Raise("AttributeError")
  ELSE IF GPSUOf(Get(strm, GPSU)).exc # "" THEN Raise(GPSUOf(Get(strm, GPSU)).exc)
  ELSE IF ~Has(strm, GPSP) THEN Raise("AttributeError")
  ELSE IF GPSPOf(Get(strm, GPSP)).exc # "" THEN Raise(GPSPOf(Get(strm, GPSP)).exc)
  ELSE IF ~Has(strm, GPSF) THEN Raise("AttributeError")
  ELSE IF IntOf(Get(strm, GPSF)).exc # "" THEN Raise(IntOf(Get(strm, GPSF)).exc)
  ELSE IF ~Has(strm, GPSA) THEN Raise("AttributeError")
  ELSE IF GPSAExc(Get(strm, GPSA)) # "" THEN Raise(GPSAExc(Get(strm, GPSA)))
  ELSE IF ~Has(strm, SCAL) THEN Raise("AttributeError")
  ELSE IF ~Has(strm, GPS5) THEN Raise("AttributeError")
  ELSE
    LET scal == FromBuffer(Get(strm, SCAL).value, 4, "int")
        item == Get(strm, GPS5)
        flat == FromBuffer(item.value, 4, "int")
        nrows == item.length.repeat
        rowlen == item.length.size \div 4
        ncols == BroadcastCols(nrows, rowlen, Len(scal), FALSE)
    IN  IF nrows * rowlen # Len(flat) THEN Raise("ValueError")
        ELSE IF ncols < 0 THEN Raise("ValueError")
        ELSE IF nrows > 0 /\ ncols < 5 THEN Raise("IndexError")
        ELSE Gps5Points(strm,
                        [r \in 1..nrows |->
                           ScaledRow(SubSeq(flat, (r - 1) * rowlen + 1, r * rowlen),
                                     scal, ncols)],
                        GPSUOf(Get(strm, GPSU)).t, GPSPOf(Get(strm, GPSP)).v,
                        IntOf(Get(strm, GPSF)).v)

\* decode_gps5 without its check for EMPT
decode_gps5NoEmpt(strm) == Gps5Decode(strm)

decode_gps5(strm) == IF Has(strm, EMPT) THEN Segment(<<>>) ELSE Gps5Decode(strm)

\* the gpx_segment property: the decoder of the block's stream type
gpx_segment(strm) ==
  IF strm_type(strm) = "GPS9" THEN decode_gps9(strm)
  ELSE IF strm_type(strm) = "GPS5" THEN decode_gps5(strm)
  ELSE Raise("")

(* ------------------------ parse.py: the track -------------------------- *)
RECURSIVE merge_segments(_)
merge_segments(segments) ==
  IF segments = <<>> THEN <<>>
  ELSE Head(segments).points \o merge_segments(Tail(segments))

IsGPS9(strm) == strm_type(strm) = "GPS9"
IsGPS5(strm) == strm_type(strm) = "GPS5"

\* the GPS9 blocks' segments, in the order of the blocks
Gps9Segments(gpmfdata) ==
  LET sel == SelectSeq(gpmfdata, IsGPS9) IN [j \in 1..Len(sel) |-> gpx_segment(sel[j])]

\* the GPS5 blocks' segments, in the order of the blocks
Gps5Segments(gpmfdata) ==
  LET sel == SelectSeq(gpmfdata, IsGPS5) IN [j \in 1..Len(sel) |-> gpx_segment(sel[j])]

\* a gpmf2gpx that appends the GPS5 segments to the GPS9 segments
TrackOfBoth(klvs) ==
  LET gpmfdata == [j \in 1..Len(klvs) |-> klvs[j].strm]
      both == Gps9Segments(gpmfdata) \o Gps5Segments(gpmfdata)
  IN  IF FirstExc(both) # "" THEN [kind |-> "raise", exc |-> FirstExc(both), points |-> <<>>]
      ELSE IF Len(both) = 0
      THEN [kind |-> "raise", exc |-> "SystemExit", points |-> <<>>]
      ELSE [kind |-> "track", exc |-> "", points |-> merge_segments(both)]

\* gpmf2gpx from the grouped blocks on: the track, the exception a decoder raised, or
\* the SystemExit of exit(1)
TrackOf(klvs) ==
  LET gpmfdata == [j \in 1..Len(klvs) |-> klvs[j].strm]
      s9 == Gps9Segments(gpmfdata)
      s5 == Gps5Segments(gpmfdata)
      gpx_segments == IF Len(s9) = 0 THEN s5 ELSE s9
  IN  IF FirstExc(s9) # "" THEN [kind |-> "raise", exc |-> FirstExc(s9), points |-> <<>>]
      ELSE IF Len(s9) = 0 /\ FirstExc(s5) # ""
      THEN [kind |-> "raise", exc |-> FirstExc(s5), points |-> <<>>]
      ELSE IF Len(gpx_segments) = 0
      THEN [kind |-> "raise", exc |-> "SystemExit", points |-> <<>>]
      ELSE [kind |-> "track", exc |-> "", points |-> merge_segments(gpx_segments)]

(* ----------------------- the buffers that are read ---------------------- *)
\* a (key, type_code, element_size, repeat_count, payload) tuple
Tuple(key, type_code, size, repeat, payload) ==
  [key |-> key, type_code |-> type_code, size |-> size, repeat |-> repeat,
   payload |-> payload]

\* the KLV encoding of one tuple: the 8-byte header, the payload, the padding to 4
EncodeTuple(t) ==
  t.key \o <<t.type_code, t.size, t.repeat \div 256, t.repeat % 256>> \o t.payload
    \o [j \in 1..(ceil4(Len(t.payload)) - Len(t.payload)) |-> 0]

RECURSIVE EncodeTuples(_)
EncodeTuples(ts) ==
  IF ts = <<>> THEN <<>> ELSE EncodeTuple(Head(ts)) \o EncodeTuples(Tail(ts))

\* a container: its payload is the encoding of its children, one byte per element
Container(key, children) ==
  Tuple(key, 0, 1, Len(EncodeTuples(children)), EncodeTuples(children))

MaxNodes == 3
MaxDepth == 2
MaxCut == 4

ContainerKeys == {DEVC, STRM}

\* the header of an EMPT item of two 4-byte elements
EMPT2Header == EMPT \o <<76, 4, 0, 2>>

\* three plain items (one of zero length, one padded, two of the same key), three
\* STRM items: one holding a whole item, and two whose own payload ends early (in the
\* header-only one the inner header promises 8 more bytes and none follows, in the
\* other 4 of the 8 follow), and a DEVC item holding a STRM item that holds an item
Leafs ==
  { Tuple(GPS5, 108, 20, 0, <<>>),
    Tuple(EMPT, 76, 4, 1, <<0, 0, 0, 1>>),
    Tuple(EMPT, 99, 3, 1, <<97, 98, 99>>),
    Container(STRM, <<Tuple(EMPT, 76, 4, 1, <<0, 0, 0, 2>>)>>),
    Tuple(STRM, 0, 1, 8, EMPT2Header),
    Tuple(STRM, 0, 1, 12, EMPT2Header \o <<0, 0, 0, 1>>),
    Container(DEVC, <<Container(STRM, <<Tuple(EMPT, 76, 4, 1, <<0, 0, 0, 3>>)>>)>>) }

\* the sequences of tuples made of n tuples in all, containers nested to depth dpt
RECURSIVE TuplesOf(_, _), Forests(_, _)
TuplesOf(n, dpt) ==
  IF n = 1
  THEN Leafs \cup (IF dpt > 0 THEN {Container(k, <<>>) : k \in ContainerKeys} ELSE {})
  ELSE IF dpt > 0
  THEN {Container(k, f) : k \in ContainerKeys, f \in Forests(n - 1, dpt - 1)}
  ELSE {}
Forests(n, dpt) ==
  IF n = 0 THEN {<<>>}
  ELSE UNION {{<<x>> \o f : x \in TuplesOf(k, dpt), f \in Forests(n - k, dpt)} :
                k \in 1..n}

Buffers == UNION {Forests(n, MaxDepth) : n \in 0..MaxNodes}

\* the unfold_keys gpmf2gpx passes
UNFOLD == {DEVC, STRM}
UnfoldChoices == {{}, UNFOLD}

NoResult == [kind |-> "none", exc |-> "", points |-> <<>>]

(* --------------- gpmf2gpx, read_all as a generator: Spec --------------- *)
NoValue == [exc |-> "", kind |-> "", a |-> <<>>]
NoItem == [key |-> <<>>, length |-> [type |-> <<>>, size |-> 0, repeat |-> 0],
           value |-> <<>>]

Init ==
  /\ tuples \in Buffers
  /\ unfold_keys \in UnfoldChoices
  /\ \E cut \in 0..MaxCut :
       /\ cut <= Len(EncodeTuples(tuples))
       /\ gpmf = Slice(EncodeTuples(tuples), 0, Len(EncodeTuples(tuples)) - cut)
  /\ stack = <<[data |-> gpmf, i |-> 0, path_id |-> GPMF_PATH]>>
  /\ yielded = <<>>
  /\ strm_klvs = <<>>
  /\ pc = "read"
  /\ result = NoResult
  /\ written = 0 /\ vid = 0 /\ status = -1
  /\ klv_item = NoItem /\ decoded = NoValue

Top == stack[Len(stack)]
\* the frames left as they are: the loop does not take the rest of its buffer
WithTopKept(f) == stack

\* the frames with the innermost one replaced
WithTop(f) == [stack EXCEPT ![Len(stack)] = f]

\* pop_klm fails: the exception leaves read_all and gpmf2gpx
ReadRaise ==
  /\ pc = "read" /\ has_next(Top.data)
  /\ pop_klm(Top.data).exc # ""
  /\ pc' = "done"
  /\ result' = [kind |-> "raise", exc |-> pop_klm(Top.data).exc, points |-> <<>>]
  /\ UNCHANGED <<readerVars, strm_klvs, driverVars, valueVars>>

\* an item whose key is unfolded: read_all recurses into its value
ReadUnfold ==
  /\ pc = "read" /\ has_next(Top.data)
  /\ LET r == pop_klm(Top.data)
         i == Top.i + 1
     IN  /\ r.exc = ""
         /\ r.klm.key \in unfold_keys
         /\ stack' = Append(WithTop([data |-> r.bin, i |-> i, path_id |-> Top.path_id]),
                            [data |-> r.klm.value, i |-> 0,
                             path_id |-> NestId(Top.path_id, i)])
  /\ UNCHANGED <<tuples, gpmf, unfold_keys, yielded, strm_klvs, pc, result, driverVars,
                 valueVars>>

\* any other item is yielded, and the loop of gpmf2gpx groups it
ReadYield ==
  /\ pc = "read" /\ has_next(Top.data)
  /\ LET r == pop_klm(Top.data)
     IN  /\ r.exc = ""
         /\ r.klm.key \notin unfold_keys
         /\ stack' = WithTop([data |-> r.bin, i |-> Top.i + 1, path_id |-> Top.path_id])
         /\ yielded' = Append(yielded, [path_id |-> Top.path_id, klm |-> r.klm])
         /\ strm_klvs' = Group(strm_klvs, Top.path_id, r.klm)
  /\ UNCHANGED <<tuples, gpmf, unfold_keys, pc, result, driverVars, valueVars>>

\* has_next is false: the innermost read_all returns
ReadReturn ==
  /\ pc = "read" /\ ~has_next(Top.data)
  /\ stack' = SubSeq(stack, 1, Len(stack) - 1)
  /\ pc' = IF Len(stack) = 1 THEN "grouped" ELSE "read"
  /\ UNCHANGED <<tuples, gpmf, unfold_keys, yielded, strm_klvs, result, driverVars,
                 valueVars>>

\* gpmf2gpx decodes the grouped blocks and returns the track
Decode ==
  /\ pc = "grouped" /\ unfold_keys = UNFOLD
  /\ pc' = "done"
  /\ result' = TrackOf(strm_klvs)
  /\ UNCHANGED <<readerVars, strm_klvs, driverVars, valueVars>>

Next == ReadRaise \/ ReadUnfold \/ ReadYield \/ ReadReturn \/ Decode

Spec == Init /\ [][Next]_vars

\* the generator is run to its end: gpmf2gpx iterates read_all until it stops
SpecLive == Init /\ [][Next]_vars /\ WF_vars(Next)

(* ----------------------- the blocks that are decoded -------------------- *)
\* big-endian bytes of 0 <= u < 2^31, of a signed 32-bit v, of 0 <= u < 2^16
U32(u) == <<u \div 16777216, (u \div 65536) % 256, (u \div 256) % 256, u % 256>>
I32(v) == IF v >= 0 THEN U32(v) ELSE [j \in 1..4 |-> 255 - U32(-v - 1)[j]]
U16(u) == <<u \div 256, u % 256>>

RECURSIVE Concat(_)
Concat(ss) == IF ss = <<>> THEN <<>> ELSE Head(ss) \o Concat(Tail(ss))

SeqsUpTo(S, n) == UNION {[1..k -> S] : k \in 0..n}

\* one GPS5 row: latitude and longitude (SCAL 2), elevation, 2D and 3D speed
Row5(r) == I32(r.lat) \o I32(r.lng) \o I32(5) \o I32(1) \o I32(2)
\* one GPS9 row: the same, then day 8400 after 2000-01-01, second 3600, DOP, fix
Row9(r) ==
  U32(r.lat) \o U32(r.lng) \o U32(5) \o U32(1) \o U32(0) \o U32(8400) \o U32(3600)
    \o U16(1) \o U16(r.fix)

\* the items of a GPS5 stream as the camera writes them
Tuples5(name, gpsu, fix, rows) ==
  << Tuple(STMP, 74, 8, 1, U32(0) \o U32(1)),
     Tuple(TSMP, 76, 4, 1, U32(Len(rows))),
     Tuple(STNM, 99, Len(name), 1, name),
     Tuple(UNIT, 99, 3, 1, <<100, 101, 103>>),
     Tuple(GPSF, 76, 4, 1, U32(fix)),
     Tuple(GPSU, 85, 16, 1, gpsu),
     Tuple(GPSP, 83, 2, 1, U16(150)),
     Tuple(GPSA, 70, 4, 1, <<77, 83, 76, 86>>),
     Tuple(SCAL, 108, 4, 5, I32(2) \o I32(2) \o I32(1) \o I32(1) \o I32(1)),
     Tuple(GPS5, 108, 20, Len(rows), Concat([j \in 1..Len(rows) |-> Row5(rows[j])])) >>

\* the items of a GPS9 stream; its TYPE is "lllllllSS"
Tuples9(name, rows) ==
  << Tuple(STMP, 74, 8, 1, U32(0) \o U32(1)),
     Tuple(TSMP, 76, 4, 1, U32(Len(rows))),
     Tuple(STNM, 99, Len(name), 1, name),
     Tuple(UNIT, 99, 3, 1, <<100, 101, 103>>),
     Tuple(TYPE, 99, 9, 1, <<108, 108, 108, 108, 108, 108, 108, 83, 83>>),
     Tuple(GPSA, 70, 4, 1, <<77, 83, 76, 86>>),
     Tuple(SCAL, 108, 4, 9, I32(2) \o I32(2) \o Concat([j \in 1..7 |-> I32(1)])),
     Tuple(GPS9, 63, 32, Len(rows), Concat([j \in 1..Len(rows) |-> Row9(rows[j])])) >>

EMPTTuple == Tuple(EMPT, 76, 4, 1, U32(0))
ACCLTuple == Tuple(ACCL, 115, 6, 1, <<0, 1, 0, 2, 0, 3>>)

\* the block grouped from the items of ts: each item as pop_klm reads it back
BlockOf(ts) == [j \in 1..Len(ts) |-> pop_klm(EncodeTuple(ts[j])).klm]

\* ts without the tuples whose key is in drop
Without(ts, drop) == SelectSeq(ts, LAMBDA t : t.key \notin drop)

\* "230101000000.000", "231231235959.500", "240229120000.000"
StartTimes ==
  { <<50, 51, 48, 49, 48, 49, 48, 48, 48, 48, 48, 48, 46, 48, 48, 48>>,
    <<50, 51, 49, 50, 51, 49, 50, 51, 53, 57, 53, 57, 46, 53, 48, 48>>,
    <<50, 52, 48, 50, 50, 57, 49, 50, 48, 48, 48, 48, 46, 48, 48, 48>> }
GPSU0 == <<50, 51, 48, 49, 48, 49, 48, 48, 48, 48, 48, 48, 46, 48, 48, 48>>

Name5 == <<71, 53>>
Name9 == <<71, 57>>

MaxRows == 2
MaxFix == 4
MaxSeconds == 2
MaxBlocks == 3
MaxVideos == 2

\* coordinates in half degrees (SCAL is 2): on and just past the bounds
Coords5 == [lat : {-181, -180, 180, 181}, lng : {-361, -360, 360, 361}]
\* GPS9 columns are read unsigned
Coords9 == [lat : {0, 180, 181}, lng : {0, 360, 361}, fix : {3}]

Optional5 == {STMP, TSMP, STNM, UNIT, GPSF, GPSU, GPSP, GPSA, SCAL}
Optional9 == {STMP, TSMP, STNM, UNIT, TYPE, GPSA, SCAL}

Row0 == [lat |-> 20, lng |-> 40, fix |-> 3]

\* blocks that lack any set of the keys beside the sample key, with and without EMPT
KeyBlocks ==
  {BlockOf(Without(Tuples5(Name5, GPSU0, 3, <<Row0>>), drop) \o e) :
     drop \in SUBSET Optional5, e \in {<<>>, <<EMPTTuple>>}}
  \cup {BlockOf(Without(Tuples9(Name9, <<Row0>>), drop)) : drop \in SUBSET Optional9}

\* whole blocks of up to MaxRows samples on and past the coordinate bounds
RowBlocks ==
  {BlockOf(Tuples5(Name5, GPSU0, 3, rows)) : rows \in SeqsUpTo(Coords5, MaxRows)}
  \cup {BlockOf(Tuples9(Name9, rows)) : rows \in SeqsUpTo(Coords9, MaxRows)}

\* whole blocks with each fix code up to MaxFix
FixBlocks ==
  {BlockOf(Tuples5(Name5, GPSU0, f, <<Row0>>)) : f \in 0..MaxFix}
  \cup {BlockOf(Tuples9(Name9, <<Row0, [Row0 EXCEPT !.fix = f]>>)) : f \in 0..MaxFix}

\* whole GPS5 blocks that last MaxSeconds seconds at 18 samples a second
TimeBlocks ==
  {BlockOf(Tuples5(Name5, t, 3, [j \in 1..(18 * MaxSeconds + 1) |-> Row0])) :
     t \in StartTimes}

\* the blocks of videos of several streams: each kind with samples of its own
Menu ==
  { BlockOf(Tuples9(<<57, 97>>, <<[Row0 EXCEPT !.lat = 11]>>)),
    BlockOf(Tuples9(<<57, 98>>, <<[Row0 EXCEPT !.lat = 12], [Row0 EXCEPT !.lat = 13]>>)),
    BlockOf(Tuples5(<<53, 97>>, GPSU0, 3, <<[Row0 EXCEPT !.lat = 21]>>)),
    BlockOf(Tuples5(<<53, 98>>, GPSU0, 3,
                    <<[Row0 EXCEPT !.lat = 22], [Row0 EXCEPT !.lat = 23]>>)),
    BlockOf(Tuples9(<<57, 99>>, <<[Row0 EXCEPT !.lat = 14]>>)
              \o <<Tuples5(<<53, 99>>, GPSU0, 3, <<[Row0 EXCEPT !.lat = 24]>>)[10]>>),
    BlockOf(<<Tuples5(Name5, GPSU0, 3, <<>>)[10], EMPTTuple>>),
    BlockOf(Tuples5(<<53, 101>>, GPSU0, 3, <<[Row0 EXCEPT !.lat = 25]>>) \o <<EMPTTuple>>),
    BlockOf(Without(Tuples5(<<53, 120>>, GPSU0, 3, <<Row0>>), {GPSU})),
    BlockOf(<<Tuples5(<<65, 67>>, GPSU0, 3, <<>>)[3], ACCLTuple>>) }

\* the grouped blocks of a video: the streams of its one device, "gpmf-1-1" onwards
Grouped(blocks) ==
  [j \in 1..Len(blocks) |->
     [path_id |-> NestId(NestId(GPMF_PATH, 1), j), strm |-> blocks[j]]]

Videos ==
  {Grouped(<<b>>) : b \in KeyBlocks \cup RowBlocks \cup FixBlocks \cup TimeBlocks}
  \cup {Grouped(bs) : bs \in SeqsUpTo(Menu, MaxBlocks)}

(* ------------- extract_all and main over the videos: SpecGpx ------------ *)
InitGpx ==
  /\ tuples = <<>> /\ gpmf = <<>> /\ unfold_keys = UNFOLD /\ stack = <<>>
  /\ yielded = <<>>
  /\ strm_klvs = <<>>
  /\ pc = "loop"
  /\ result = NoResult
  /\ written = 0 /\ vid = 0 /\ status = -1
  /\ klv_item = NoItem /\ decoded = NoValue

\* the next video has a gpmd stream: gpmf2gpx is called on it and has grouped its blocks
NextVideo ==
  /\ pc = "loop" /\ vid < MaxVideos
  /\ vid' = vid + 1
  /\ strm_klvs' \in Videos
  /\ pc' = "gpmf2gpx"
  /\ UNCHANGED <<readerVars, result, written, status, valueVars>>

\* the next video has no gpmd stream: continue
NoStream ==
  /\ pc = "loop" /\ vid < MaxVideos
  /\ vid' = vid + 1
  /\ UNCHANGED <<readerVars, strm_klvs, pc, result, written, status, valueVars>>

\* gpmf2gpx runs on the grouped blocks: it returns the track, or raises
Gpmf2gpx ==
  /\ pc = "gpmf2gpx"
  /\ result' = TrackOf(strm_klvs)
  /\ pc' = "gpmf2gpx_done"
  /\ UNCHANGED <<readerVars, strm_klvs, driverVars, valueVars>>

\* gpmf2gpx returned the track: extract_all goes on to write it
Gpmf2gpxReturn ==
  /\ pc = "gpmf2gpx_done" /\ result.kind = "track"
  /\ pc' = "write"
  /\ UNCHANGED <<readerVars, strm_klvs, result, driverVars, valueVars>>

\* a decoder raised: the exception leaves gpmf2gpx and extract_all, main logs it and
\* returns 2
Gpmf2gpxRaise ==
  /\ pc = "gpmf2gpx_done" /\ result.kind = "raise" /\ result.exc # "SystemExit"
  /\ pc' = "stopped" /\ status' = 2
  /\ UNCHANGED <<readerVars, strm_klvs, result, written, vid, valueVars>>

\* exit(1): SystemExit is no Exception, main does not catch it and the process ends
Gpmf2gpxExit ==
  /\ pc = "gpmf2gpx_done" /\ result.kind = "raise" /\ result.exc = "SystemExit"
  /\ pc' = "exited" /\ status' = 1
  /\ UNCHANGED <<readerVars, strm_klvs, result, written, vid, valueVars>>

\* write_gpx, written.append, and the loop goes on
WriteGpx ==
  /\ pc = "write"
  /\ written' = written + 1
  /\ strm_klvs' = <<>> /\ result' = NoResult
  /\ pc' = "loop"
  /\ UNCHANGED <<readerVars, vid, status, valueVars>>

\* mp4_files is exhausted: extract_all returns written, main returns 0 or 1
MainReturn ==
  /\ pc = "loop" /\ vid = MaxVideos
  /\ pc' = "stopped" /\ status' = IF written = 0 THEN 1 ELSE 0
  /\ UNCHANGED <<readerVars, strm_klvs, result, written, vid, valueVars>>

NextGpx ==
  NextVideo \/ NoStream \/ Gpmf2gpx \/ Gpmf2gpxReturn \/ Gpmf2gpxRaise \/ Gpmf2gpxExit
    \/ WriteGpx \/ MainReturn

SpecGpx == InitGpx /\ [][NextGpx]_vars

(* --------------- decode_from_type over the items: SpecValue ------------- *)
MaxSize == 8
MaxRepeat == 3

\* the ten numeric codes, 'U', 'c', '?' and the zero byte of a nested item
TypeCodes == {100, 102, 98, 66, 115, 83, 108, 76, 106, 74, 85, 99, 63, 0}

\* payloads of n bytes: zeros; a 1 in the last byte of every 8; 1s in the last three
\* and the last byte of every 8
Payloads(n) ==
  { [j \in 1..n |-> 0],
    [j \in 1..n |-> IF j % 8 = 0 THEN 1 ELSE 0],
    [j \in 1..n |-> IF j % 8 \in {0, 6, 7} THEN 1 ELSE 0] }

\* the items pop_klm reads from the encoding of one tuple
Items ==
  UNION { { pop_klm(EncodeTuple(Tuple(ACCL, t, size, repeat, payload))).klm :
              t \in TypeCodes, payload \in Payloads(size * repeat) } :
          size \in 1..MaxSize, repeat \in 0..MaxRepeat }

InitValue ==
  /\ tuples = <<>> /\ gpmf = <<>> /\ unfold_keys = UNFOLD /\ stack = <<>>
  /\ yielded = <<>>
  /\ strm_klvs = <<>>
  /\ pc = "value"
  /\ result = NoResult
  /\ written = 0 /\ vid = 0 /\ status = -1
  /\ klv_item \in Items
  /\ decoded = NoValue

\* decode_from_type(item)
DecodeValue ==
  /\ pc = "value"
  /\ decoded' = decode_from_type(klv_item)
  /\ pc' = "decoded"
  /\ UNCHANGED <<readerVars, strm_klvs, result, driverVars, klv_item>>

NextValue == DecodeValue

SpecValue == InitValue /\ [][NextValue]_vars

(* ------------------------------- claims -------------------------------- *)
\* the item a tuple is read back as: same key, type, size, repeat, and the payload as
\* the logical content of a value padded to a multiple of 4
ReadsBackAs(klm, t) ==
  /\ klm.key = t.key
  /\ klm.length.type = (IF t.type_code = 0 THEN NST ELSE <<t.type_code>>)
  /\ klm.length.size = t.size
  /\ klm.length.repeat = t.repeat
  /\ Len(klm.value) = ceil4(t.size * t.repeat)
  /\ Slice(klm.value, 0, t.size * t.repeat) = t.payload

\* read_all has returned from its outermost call
ReadDone == pc \in {"grouped", "done"} /\ result.kind # "raise"

\* C1: once read_all with no key unfolded has read a well-formed buffer to its end, it
\* has yielded exactly one item per encoded tuple, in order, each equal to its tuple,
\* zero-length tuples included, also the last one.
C1_RoundTrip ==
  (pc = "grouped" /\ unfold_keys = {} /\ gpmf = EncodeTuples(tuples))
    => /\ Len(yielded) = Len(tuples)
       /\ \A j \in 1..Len(tuples) :
            yielded[j].path_id = GPMF_PATH /\ ReadsBackAs(yielded[j].klm, tuples[j])

\* a header of the buffer, at top level or inside an unfolded container, declares a
\* padded payload longer than what follows it (headers located as the format lays them
\* out: one wherever at least 8 bytes remain)
RECURSIVE Overrun(_, _)
Overrun(data, unfold) ==
  IF Len(data) < 8 THEN FALSE
  ELSE LET n == data[6] * (data[7] * 256 + data[8])
           after == Len(data) - 8
       IN  IF ceil4(n) > after THEN TRUE
           ELSE \/ SubSeq(data, 1, 4) \in unfold /\ Overrun(SubSeq(data, 9, 8 + n), unfold)
                \/ Overrun(SubSeq(data, 9 + ceil4(n), Len(data)), unfold)

\* C2: gpmf2gpx on a buffer in which a header declares more payload than remains ends
\* with the truncation error (the AssertionError of pop_klm) and returns no track.
C2_TruncationRaises ==
  (pc = "done" /\ unfold_keys = UNFOLD /\ Overrun(gpmf, UNFOLD))
    => (result.kind = "raise" /\ result.exc = "AssertionError")

\* the path ids yielded so far
PathsSeen == {yielded[j].path_id : j \in 1..Len(yielded)}
\* the keys yielded so far under path p
KeysSeen(p) == {yielded[j].klm.key : j \in {i \in 1..Len(yielded) : yielded[i].path_id = p}}
\* where path p is first yielded
FirstAt(p) ==
  CHOOSE j \in 1..Len(yielded) :
    yielded[j].path_id = p /\ \A k \in 1..(j - 1) : yielded[k].path_id # p
\* where key k is last yielded under path p
LastAt(p, k) ==
  CHOOSE j \in 1..Len(yielded) :
    /\ yielded[j].path_id = p /\ yielded[j].klm.key = k
    /\ \A i \in (j + 1)..Len(yielded) : ~(yielded[i].path_id = p /\ yielded[i].klm.key = k)

\* C10: the grouping holds exactly one block per path id yielded, the blocks stand in
\* the order their path ids were first yielded, and each block maps exactly the keys
\* yielded under its path, each to the last item yielded with that key.
C10_BlockAssembly ==
  /\ Len(strm_klvs) = Cardinality(PathsSeen)
  /\ {strm_klvs[b].path_id : b \in 1..Len(strm_klvs)} = PathsSeen
  /\ \A a, b \in 1..Len(strm_klvs) :
       a < b => FirstAt(strm_klvs[a].path_id) < FirstAt(strm_klvs[b].path_id)
  /\ \A b \in 1..Len(strm_klvs) :
       LET p == strm_klvs[b].path_id
           strm == strm_klvs[b].strm
       IN  /\ {strm[j].key : j \in 1..Len(strm)} = KeysSeen(p)
           /\ Len(strm) = Cardinality(KeysSeen(p))
           /\ \A k \in KeysSeen(p) : Get(strm, k) = yielded[LastAt(p, k)].klm

\* C10 witness: a path yielded again after another path came between, with a key it
\* had already carried and a different item, and the read went on to its end
C10_Witness ==
  /\ ReadDone
  /\ \E i, j, k \in 1..Len(yielded) :
       /\ i < j /\ j < k
       /\ yielded[i].path_id = yielded[k].path_id
       /\ yielded[j].path_id # yielded[i].path_id
       /\ yielded[i].klm.key = yielded[k].klm.key
       /\ yielded[i].klm # yielded[k].klm

(* ---------------------- claims about the decoded track ------------------ *)
\* gpmf2gpx has just ended on the grouped blocks strm_klvs
Decoded == pc = "gpmf2gpx_done"
Blocks == [j \in 1..Len(strm_klvs) |-> strm_klvs[j].strm]
Positional(strm) == Has(strm, GPS9) \/ Has(strm, GPS5)
EmptGps5(strm) == Has(strm, GPS5) /\ ~Has(strm, GPS9) /\ Has(strm, EMPT)
\* the sample rows of a positional block
Rows(strm) == Get(strm, IF Has(strm, GPS9) THEN GPS9 ELSE GPS5).length.repeat

\* the points of the blocks that have key k, block after block in the order of the blocks
PointsOfBlocksWith(k) ==
  LET sel == SelectSeq(Blocks, LAMBDA b : Has(b, k))
  IN  Concat([j \in 1..Len(sel) |-> gpx_segment(sel[j]).points])

\* C3: a returned track holds exactly the points of the GPS9 blocks, block after block
\* in input order, when any block has the GPS9 key, and no GPS5 point; only with no
\* GPS9 block does it hold the points of the GPS5 blocks in input order.
C3_Precedence ==
  (Decoded /\ result.kind = "track")
    => result.points =
         IF \E j \in 1..Len(Blocks) : Has(Blocks[j], GPS9)
         THEN PointsOfBlocksWith(GPS9) ELSE PointsOfBlocksWith(GPS5)

\* a track was returned for a GPS5 block with a sample followed by two GPS9 blocks with
\* samples
C3_Witness ==
  /\ Decoded /\ result.kind = "track" /\ Len(Blocks) = 3
  /\ ~Has(Blocks[1], GPS9) /\ Has(Blocks[1], GPS5) /\ ~Has(Blocks[1], EMPT)
  /\ Rows(Blocks[1]) > 0
  /\ Has(Blocks[2], GPS9) /\ Has(Blocks[3], GPS9) /\ Blocks[2] # Blocks[3]
  /\ Len(result.points) = Rows(Blocks[2]) + Rows(Blocks[3])
  /\ Rows(Blocks[2]) > 0 /\ Rows(Blocks[3]) > 0

\* C4: when gpmf2gpx has ended on blocks none of which has a GPS5 or GPS9 key, no track
\* is produced and the failure is an outcome its caller receives: control is in
\* extract_all or main, not at the end of the process.
C4_NoPositionalReturned ==
  (pc \in {"gpmf2gpx_done", "write", "stopped", "exited"} /\ result # NoResult
     /\ \A j \in 1..Len(Blocks) : ~Positional(Blocks[j]))
    => (result.kind = "raise" /\ result.exc # "SystemExit" /\ pc # "exited")

\* the start time of a GPS5 block: its GPSU characters after "20"
StartOf(strm) == Strptime(<<50, 48>> \o Slice(Get(strm, GPSU).value, 0, 16)).t

\* C5: in the track of one GPS5 block the sample at index 18*k is stamped GPSU + k
\* seconds exactly.
C5_FixedRate ==
  (Decoded /\ result.kind = "track" /\ Len(Blocks) = 1 /\ IsGPS5(Blocks[1])
     /\ ~Has(Blocks[1], EMPT))
    => \A k \in 0..MaxSeconds :
         18 * k + 1 <= Len(result.points)
           => result.points[18 * k + 1].time
                = TimeAdd(StartOf(Blocks[1]), Normalise(0, k, 0))

\* the keys the claim says a block's variant requires
RequiredKeys(strm) ==
  {STNM, UNIT, SCAL, GPSA}
    \cup (IF Has(strm, GPS9) THEN {TYPE} ELSE {GPSU, GPSP, GPSF})

\* C6: a GPS9 block, or a GPS5 block without EMPT, fails for a missing field exactly
\* when a key its variant requires is absent; with all of them it decodes to one point
\* per row, whether or not STMP and TSMP are present.
C6_RequiredKeys ==
  (Decoded /\ Len(Blocks) = 1 /\ Positional(Blocks[1]) /\ ~EmptGps5(Blocks[1]))
    => LET missing == \E k \in RequiredKeys(Blocks[1]) : ~Has(Blocks[1], k)
       IN  /\ (result.kind = "raise" /\ result.exc = "AttributeError") <=> missing
           /\ ~missing => (result.kind = "track"
                             /\ Len(result.points) = Rows(Blocks[1]))

\* the fix codes of FIX_TYPE
FixCodes == {0, 2, 3}
\* raw column c (from 1) of row i (from 1) of a positional block: GPS9 columns are read
\* unsigned, GPS5 columns signed
RawAt(strm, i, c) ==
  LET nine == Has(strm, GPS9)
      it == Get(strm, IF nine THEN GPS9 ELSE GPS5)
      b == Slice(it.value, (i - 1) * it.length.size + (c - 1) * 4,
                 (i - 1) * it.length.size + c * 4)
  IN  IF nine THEN BEUnsigned(b) ELSE BESigned(b)
\* the SCAL divisor of column c
ScalAt(strm, c) == BESigned(Slice(Get(strm, SCAL).value, (c - 1) * 4, c * 4))
\* the fix code of row i
FixAt(strm, i) ==
  IF Has(strm, GPS9)
  THEN LET it == Get(strm, GPS9)
       IN  BEUnsigned(Slice(it.value, (i - 1) * it.length.size + 30,
                            (i - 1) * it.length.size + 32))
  ELSE BEUnsigned(Slice(Get(strm, GPSF).value, 0, 4))

\* a block with samples, with every key its decoder reads and fix codes of FIX_TYPE
Complete(strm) ==
  /\ Positional(strm) /\ ~EmptGps5(strm)
  /\ \A k \in (IF Has(strm, GPS9) THEN Optional9 ELSE Optional5) : Has(strm, k)
  /\ Rows(strm) >= 1
  /\ \A i \in 1..Rows(strm) : FixAt(strm, i) \in FixCodes

\* the coordinate x = raw / scal (scal > 0) as the claim has it: 0 outside
\* [-bound, bound], unchanged inside, bounds included
Sanitized(x, raw, scal, bound) ==
  IF raw > bound * scal \/ raw < -bound * scal THEN x.n = 0
  ELSE x.n * scal = raw * x.d

\* C7: a complete block decodes without error to one point per sample row whatever
\* the coordinates are; a latitude outside [-90, 90] and a longitude outside
\* [-180, 180] are each replaced by 0, values inside or on the bounds are kept.
C7_Sanitization ==
  (Decoded /\ Len(Blocks) = 1 /\ Complete(Blocks[1]))
    => /\ result.kind = "track"
       /\ Len(result.points) = Rows(Blocks[1])
       /\ \A i \in 1..Rows(Blocks[1]) :
            /\ Sanitized(result.points[i].latitude, RawAt(Blocks[1], i, 1),
                         ScalAt(Blocks[1], 1), 90)
            /\ Sanitized(result.points[i].longitude, RawAt(Blocks[1], i, 2),
                         ScalAt(Blocks[1], 2), 180)

\* a two-row block was decoded: one row with latitude 90.5 and longitude -180, the
\* other with latitude -90 and longitude 180.5
C7_Witness ==
  /\ Decoded /\ Len(Blocks) = 1 /\ Complete(Blocks[1]) /\ Rows(Blocks[1]) = 2
  /\ ~Has(Blocks[1], GPS9)
  /\ RawAt(Blocks[1], 1, 1) = 181 /\ RawAt(Blocks[1], 1, 2) = -360
  /\ RawAt(Blocks[1], 2, 1) = -180 /\ RawAt(Blocks[1], 2, 2) = 361
  /\ ScalAt(Blocks[1], 1) = 2 /\ ScalAt(Blocks[1], 2) = 2
  /\ Len(result.points) = 2
  /\ result.points[1].latitude.n = 0 /\ result.points[1].longitude.n = -360
  /\ result.points[2].latitude.n = -180 /\ result.points[2].longitude.n = 0

\* C8: a block with the GPS5 key, without the GPS9 key and with EMPT decodes to an
\* empty segment without error whichever other keys it has; blocks whose only
\* positional blocks are such blocks give a track with zero points.
C8_EmptPlaceholder ==
  Decoded
    => /\ \A j \in 1..Len(Blocks) :
            EmptGps5(Blocks[j]) => gpx_segment(Blocks[j]) = [exc |-> "", points |-> <<>>]
       /\ ((\E j \in 1..Len(Blocks) : Positional(Blocks[j]))
             /\ \A j \in 1..Len(Blocks) : Positional(Blocks[j]) => EmptGps5(Blocks[j]))
            => (result.kind = "track" /\ result.points = <<>>)

\* a GPS5 block with EMPT and none of STNM, GPSU and SCAL was decoded to a track of
\* zero points
C8_Witness ==
  /\ Decoded /\ Len(Blocks) = 1 /\ EmptGps5(Blocks[1])
  /\ ~Has(Blocks[1], STNM) /\ ~Has(Blocks[1], GPSU) /\ ~Has(Blocks[1], SCAL)
  /\ Rows(Blocks[1]) = 1
  /\ result.kind = "track" /\ result.points = <<>>

(* ---------------------- claims about decode_from_type ------------------- *)
\* the type codes the claim counts as the fixed alphabet: the ten numeric codes and the
\* string/raw codes 'c' and 'U'
Alphabet == DOMAIN TYPE_CONV \cup {<<99>>, <<85>>}

\* C9: for a numeric type code decode_from_type returns repeat_count *
\* (element_size / width) elements, those of the first element_size * repeat_count
\* bytes and none from the padding, and a scalar exactly when repeat_count is 1 and the
\* row length is 1; a type code outside the alphabet fails with the unsupported-type
\* error (the KeyError of TYPE_CONV).
C9_TypedValue ==
  pc = "decoded"
    => LET t == klv_item.length.type
           size == klv_item.length.size
           repeat == klv_item.length.repeat
       IN  /\ (t \in DOMAIN TYPE_CONV /\ size % TYPE_CONV[t].w = 0)
                => LET w == TYPE_CONV[t].w
                       n == repeat * (size \div w)
                   IN  /\ decoded.exc = ""
                       /\ Len(decoded.a) = n
                       /\ \A j \in 1..Min(n, Len(decoded.a)) :
                            decoded.a[j]
                              = Element(TYPE_CONV[t].k,
                                        Slice(klv_item.value, (j - 1) * w, j * w))
                       /\ (decoded.kind = "scalar") <=> (repeat = 1 /\ size = w)
           /\ t \notin Alphabet => decoded.exc = "KeyError"

(* -------------------------- claims about the fix ------------------------ *)
\* the mapping of the claim: 0 -> none, 2 -> 2D, 3 -> 3D
FixName == (0 :> "none") @@ (2 :> "2d") @@ (3 :> "3d")

\* a block with samples and with every key its decoder reads
WithSamples(strm) ==
  /\ Positional(strm) /\ ~EmptGps5(strm)
  /\ \A k \in (IF Has(strm, GPS9) THEN Optional9 ELSE Optional5) : Has(strm, k)
  /\ Rows(strm) >= 1

\* C11: every point of a returned track has the fix type none, 2d or 3d; a block all of
\* whose fix codes are 0, 2 or 3 gives each point the image of its row's code, and a
\* block with any other fix code fails with the unknown-fix error (the KeyError of
\* FIX_TYPE) and emits no point.
C11_FixMapping ==
  Decoded
    => /\ result.kind = "track"
            => \A i \in 1..Len(result.points) :
                 result.points[i].type_of_gpx_fix \in {"none", "2d", "3d"}
       /\ (Len(Blocks) = 1 /\ WithSamples(Blocks[1]))
            => IF \A i \in 1..Rows(Blocks[1]) : FixAt(Blocks[1], i) \in DOMAIN FixName
               THEN /\ result.kind = "track"
                    /\ Len(result.points) = Rows(Blocks[1])
                    /\ \A i \in 1..Rows(Blocks[1]) :
                         result.points[i].type_of_gpx_fix = FixName[FixAt(Blocks[1], i)]
               ELSE result = [kind |-> "raise", exc |-> "KeyError", points |-> <<>>]

\* a GPS9 block whose first row has fix code 3 and whose second row has fix code 1 was
\* decoded, and building the second point failed
C11_Witness ==
  /\ Decoded /\ Len(Blocks) = 1 /\ WithSamples(Blocks[1]) /\ Has(Blocks[1], GPS9)
  /\ Rows(Blocks[1]) = 2
  /\ FixAt(Blocks[1], 1) = 3 /\ FixAt(Blocks[1], 2) = 1
  /\ result.kind = "raise" /\ result.exc = "KeyError"

(* ------------------------- claims about path ids ------------------------ *)
\* where each item that read_all yields lies: the indices, from the top level down, of
\* the container occurrences around it (<<>> for an item at top level); stop says the
\* walk ended at a payload that is cut short
RECURSIVE Occurrences(_, _, _, _)
Occurrences(data, unfold, pos, i) ==
  IF ~has_next(data) THEN [occ |-> <<>>, stop |-> FALSE]
  ELSE LET r == pop_klm(data)
       IN  IF r.exc # "" THEN [occ |-> <<>>, stop |-> TRUE]
           ELSE LET here == IF r.klm.key \in unfold
                            THEN Occurrences(r.klm.value, unfold, Append(pos, i + 1), 0)
                            ELSE [occ |-> <<pos>>, stop |-> FALSE]
                    rest == Occurrences(r.bin, unfold, pos, i + 1)
                IN  IF here.stop THEN here
                    ELSE [occ |-> here.occ \o rest.occ, stop |-> rest.stop]

\* C12: among the items yielded so far with DEVC and STRM unfolded, two carry the same
\* path_id exactly when they are direct children of the same container occurrence (or
\* both lie at top level).
C12_PathIds ==
  unfold_keys = UNFOLD
    => LET occ == Occurrences(gpmf, UNFOLD, <<>>, 0).occ
       IN  /\ Len(yielded) <= Len(occ)
           /\ \A j, k \in 1..Len(yielded) :
                (yielded[j].path_id = yielded[k].path_id) <=> (occ[j] = occ[k])

\* two STRM occurrences, each the first item of a different DEVC, were read: their
\* items carry gpmf-1-1 and gpmf-2-1
C12_Witness ==
  /\ unfold_keys = UNFOLD /\ pc = "grouped" /\ Len(yielded) = 2
  /\ Occurrences(gpmf, UNFOLD, <<>>, 0).occ = <<<<1, 1>>, <<2, 1>>>>
  /\ yielded[1].path_id = GPMF_PATH \o <<45, 49, 45, 49>>
  /\ yielded[2].path_id = GPMF_PATH \o <<45, 50, 45, 49>>

(* ------------------------ claims about termination ---------------------- *)
\* one step of the tokenizer takes at least the 8 header bytes from the buffer of its
\* loop; a recursive call gets a buffer strictly shorter than its parent's; with fewer
\* than 8 bytes left the loop ends and nothing is raised or yielded
TokenizerStep ==
  pc = "read"
    => /\ (pc' = "read" /\ Len(stack') >= Len(stack))
            => Len(stack'[Len(stack)].data) + 8 <= Len(Top.data)
       /\ Len(stack') = Len(stack) + 1
            => Len(stack'[Len(stack')].data) < Len(Top.data)
       /\ Len(Top.data) < 8
            => /\ Len(stack') = Len(stack) - 1
               /\ yielded' = yielded /\ result' = result /\ pc' \in {"read", "grouped"}

\* C13: read_all eventually stops on every buffer and unfold-key set, by exhausting the
\* buffer or by failing on a truncated payload; every step consumes at least 8 bytes,
\* every recursive call works on a strictly shorter buffer, and fewer than 8 remaining
\* bytes end the iteration without an error.
C13_Termination == <>(pc # "read") /\ [][TokenizerStep]_vars

\* read_all has stopped after yielding a zero-length item at top level and an item
\* nested two containers deep
C13_Witness ==
  /\ pc = "grouped" /\ unfold_keys = UNFOLD /\ stack = <<>>
  /\ Len(yielded) = 2
  /\ yielded[1].path_id = GPMF_PATH /\ yielded[1].klm.value = <<>>
  /\ yielded[2].path_id = GPMF_PATH \o <<45, 50, 45, 49>>

====
